---- MODULE Spec2Model ----
(***************************************************************************)
(* Model of the sihas-canary sensor platform (src/sensor.py): the          *)
(* measurement decode table, setup_platform, the PMM-300 energy meter      *)
(* entity and the AQM-300 wrapper with its seven virtual sensors.          *)
(*                                                                         *)
(* Python lists are sequences; Python index i is position i + 1.           *)
(* Python values are records [kind, whole, tenth]: None, an int, or a      *)
(* float with one decimal (whole + tenth/10).                              *)
(***************************************************************************)
EXTENDS Integers, Sequences, FiniteSets, TLC

VARIABLES
    pmm_value,        \* Pmm300._attr_native_value
    pmm_polled,       \* what poll() returned to the last Pmm300.update()
    pmm_last,         \* history: the most recent non-empty poll result
    pmm_covering,     \* history: the most recent poll result with words 40, 41
    pmm_prev,         \* history: the stored value before the last update
    pmm_outcome,      \* how the last Pmm300.update() ended
    pmm_calls,        \* number of Pmm300.update() calls so far
    dec_regs,         \* the register array handed to a decode function
    dec_key,          \* the measurement whose decode function was applied
    dec_out,          \* what that decode function returned
    wrappers,         \* the Aqm300 wrappers setup_platform constructed
    added,            \* the add_entities calls, each a list of entities
    setup_outcome,    \* how the last setup_platform call ended
    setup_config,     \* the config of the last setup_platform call
    setups,           \* number of setup_platform calls so far
    registers,        \* Aqm300.registers, the shared snapshot
    proxy_available,  \* Aqm300._attr_available
    sensors,          \* the seven AqmVirtualSensor objects of one Aqm300
    last,             \* position of the sensor updated last (0: none yet)
    outcome,          \* how the last AqmVirtualSensor.update() ended
    proxy_updates,    \* number of Aqm300.update() invocations in this cycle
    calls,            \* number of AqmVirtualSensor.update() calls so far
    pending,          \* sensors the host has yet to update in this cycle
    device,           \* what the device answers to a poll in this cycle
    cycles            \* number of polling cycles started

vars == <<pmm_value, pmm_polled, pmm_last, pmm_covering, pmm_prev,
          pmm_outcome, pmm_calls,
          dec_regs, dec_key, dec_out,
          wrappers, added, setup_outcome, setup_config, setups,
          registers, proxy_available, sensors, last, outcome,
          proxy_updates, calls, pending, device, cycles>>

pmmVars == <<pmm_value, pmm_polled, pmm_last, pmm_covering, pmm_prev,
             pmm_outcome, pmm_calls>>
decVars == <<dec_regs, dec_key, dec_out>>
setupVars == <<wrappers, added, setup_outcome, setup_config, setups>>
aqmVars == <<registers, proxy_available, sensors, last, outcome,
             proxy_updates, calls, pending, device, cycles>>

----------------------------------------------------------------------------
(* Bounds of the model.                                                    *)

MaxPmmCalls == 3
MaxSetups == 2
MaxCalls == 3
MaxCycles == 2
PmmRegCount == 42
PmmShortCount == 40
AqmRegCount == 7
ShortRegCount == 3

(* A register is one 16-bit Modbus word.                                   *)
WordLimit == 2 ^ 16

(* The words the polled snapshots are built from.                          *)
Words == {0, 1, 2, 65535}
DecodeWords == {0, 455, 65535}

----------------------------------------------------------------------------
(* Python values.                                                          *)

(* An int below 2^16 or a one-decimal float is [kind, whole, tenth]; the   *)
(* energy total, an int below 2^32, is held as two 16-bit limbs            *)
(* [kind, high, low] standing for high * 2^16 + low, because the model     *)
(* checker's integers are 32-bit signed.                                   *)
PyNone == [kind |-> "None", whole |-> 0, tenth |-> 0]
PyInt(n) == [kind |-> "int", whole |-> n, tenth |-> 0]
PyFloat(tenths) == [kind |-> "float", whole |-> tenths \div 10, tenth |-> tenths % 10]
IndexError == [kind |-> "IndexError", whole |-> 0, tenth |-> 0]

(* list.__getitem__ with a non-negative index.                             *)
Subscript(r, i) ==
    IF i < Len(r) THEN [raised |-> FALSE, v |-> r[i + 1]]
                  ELSE [raised |-> TRUE, v |-> 0]

(* round(x / den, 1) for a non-negative int x: the number of tenths        *)
(* nearest to x / den, a tie going to the even one.                        *)
RoundDiv1(x, den) ==
    LET q == (x * 10) \div den
        rem == (x * 10) % den
    IN  IF 2 * rem > den THEN q + 1
        ELSE IF 2 * rem < den THEN q
        ELSE IF q % 2 = 0 THEN q ELSE q + 1

(* lambda r: round(r[i] / 10, 1)                                           *)
Scaled(x) == IF x.raised THEN IndexError ELSE PyFloat(RoundDiv1(x.v, 10))

(* lambda r: r[i]                                                          *)
Raw(x) == IF x.raised THEN IndexError ELSE PyInt(x.v)

----------------------------------------------------------------------------
(* homeassistant.const device classes, as imported by sensor.py.           *)

DEVICE_CLASS_CO2 == "carbon_dioxide"
DEVICE_CLASS_HUMIDITY == "humidity"
DEVICE_CLASS_ILLUMINANCE == "illuminance"
DEVICE_CLASS_PM10 == "pm10"
DEVICE_CLASS_PM25 == "pm25"
DEVICE_CLASS_TEMPERATURE == "temperature"
DEVICE_CLASS_VOLATILE_ORGANIC_COMPOUNDS == "volatile_organic_compounds"

(* AQM_GENERIC_SENSOR_DEFINE: the keys of the table.                       *)
MeasurementKeys ==
    {"humidity", "temperature", "illuminance", "co2", "pm25", "pm10", "tvoc"}

(* AQM_GENERIC_SENSOR_DEFINE[key]["value_handler"](r), with a swapped pair *)
(* of scaled indices.                                                      *)
value_handler_swapped(key, r) ==
    CASE key = "humidity"    -> Scaled(Subscript(r, 0))
      [] key = "temperature" -> Scaled(Subscript(r, 1))
      [] key = "illuminance" -> Raw(Subscript(r, 6))
      [] key = "co2"         -> Raw(Subscript(r, 2))
      [] key = "pm25"        -> Raw(Subscript(r, 3))
      [] key = "pm10"        -> Raw(Subscript(r, 4))
      [] key = "tvoc"        -> Raw(Subscript(r, 5))

(* AQM_GENERIC_SENSOR_DEFINE[key]["value_handler"](r)                      *)
value_handler(key, r) ==
    CASE key = "humidity"    -> Scaled(Subscript(r, 1))
      [] key = "temperature" -> Scaled(Subscript(r, 0))
      [] key = "illuminance" -> Raw(Subscript(r, 6))
      [] key = "co2"         -> Raw(Subscript(r, 2))
      [] key = "pm25"        -> Raw(Subscript(r, 3))
      [] key = "pm10"        -> Raw(Subscript(r, 4))
      [] key = "tvoc"        -> Raw(Subscript(r, 5))

(* AQM_GENERIC_SENSOR_DEFINE[key]["device_class"]                          *)
device_class(key) ==
    CASE key = "humidity"    -> DEVICE_CLASS_HUMIDITY
      [] key = "temperature" -> DEVICE_CLASS_TEMPERATURE
      [] key = "illuminance" -> DEVICE_CLASS_ILLUMINANCE
      [] key = "co2"         -> DEVICE_CLASS_CO2
      [] key = "pm25"        -> DEVICE_CLASS_PM25
      [] key = "pm10"        -> DEVICE_CLASS_PM10
      [] key = "tvoc"        -> DEVICE_CLASS_VOLATILE_ORGANIC_COMPOUNDS

(* AQM_GENERIC_SENSOR_DEFINE[key]["default_name"]                          *)
default_name(key) == key

----------------------------------------------------------------------------
(* Pmm300: the energy meter entity.                                        *)

REG_ACC_WATT_HOUR1 == 40
REG_ACC_WATT_HOUR2 == 41
ShiftBits == 16

Limbs(h, l) == [kind |-> "int", high |-> h, low |-> l]

(* w << bits for a 16-bit word w and 0 <= bits <= 16.                      *)
ShiftLeft(w, bits) ==
    Limbs(w \div (2 ^ (16 - bits)), (w % (2 ^ (16 - bits))) * (2 ^ bits))

(* a | b on non-negative ints.                                             *)
RECURSIVE BitOr(_, _)
BitOr(a, b) ==
    IF a = 0 THEN b
    ELSE IF b = 0 THEN a
    ELSE (IF a % 2 = 1 \/ b % 2 = 1 THEN 1 ELSE 0) + 2 * BitOr(a \div 2, b \div 2)

(* x | w for a two-limb int x and a 16-bit word w.                         *)
OrWord(x, w) == Limbs(x.high, BitOr(x.low, w))

(* What poll() returns: None, or a list of register words.                 *)
PollNone == [ok |-> FALSE, regs |-> <<>>]
PollList(r) == [ok |-> TRUE, regs |-> r]

(* bool(x) of a poll result: None and the empty list are false.            *)
Truthy(p) == p.ok /\ Len(p.regs) > 0

(* A full energy-meter snapshot with the given accumulator words.          *)
PmmSnapshot(hi, lo) ==
    [i \in 1..PmmRegCount |->
        IF i = REG_ACC_WATT_HOUR1 + 1 THEN hi
        ELSE IF i = REG_ACC_WATT_HOUR2 + 1 THEN lo
        ELSE 7]

(* A non-empty snapshot of the given length, every word 9.                 *)
PmmShortSnapshot(len) == [i \in 1..len |-> 9]

(* poll() promises no length: None, an empty list, a non-empty list that   *)
(* stops before the accumulator words, or a full snapshot.                 *)
PmmPollResults ==
    {PollNone, PollList(<<>>)}
        \cup {PollList(PmmShortSnapshot(len)) : len \in {ShortRegCount, PmmShortCount}}
        \cup {PollList(PmmSnapshot(hi, lo)) : hi \in Words, lo \in Words}

(* The list has an item at both accumulator indices.                       *)
CoversAccumulator(regs) == Len(regs) > REG_ACC_WATT_HOUR2

(* regs[REG_ACC_WATT_HOUR1] << 8 | regs[REG_ACC_WATT_HOUR2]: a byte shift  *)
(* in place of the word shift.                                             *)
acc_watt_hour_byte_shift(regs) ==
    LET h == Subscript(regs, REG_ACC_WATT_HOUR1)
        l == Subscript(regs, REG_ACC_WATT_HOUR2)
    IN  IF h.raised \/ l.raised THEN IndexError
        ELSE OrWord(ShiftLeft(h.v, 8), l.v)

(* regs[self.REG_ACC_WATT_HOUR1] << 16 | regs[self.REG_ACC_WATT_HOUR2]     *)
acc_watt_hour(regs) ==
    LET h == Subscript(regs, REG_ACC_WATT_HOUR1)
        l == Subscript(regs, REG_ACC_WATT_HOUR2)
    IN  IF h.raised \/ l.raised THEN IndexError
        ELSE OrWord(ShiftLeft(h.v, ShiftBits), l.v)

(* The value Pmm300.update() stores when poll() returned p: an update that *)
(* overwrites the value with None on a missing poll.                       *)
pmm_stored_reset(p, old) ==
    IF Truthy(p)
    THEN (IF acc_watt_hour(p.regs).kind = "IndexError" THEN old ELSE acc_watt_hour(p.regs))
    ELSE PyNone

(* The value Pmm300.update() leaves in _attr_native_value when poll()      *)
(* returned p and the value was old.                                       *)
pmm_stored(p, old) ==
    IF Truthy(p)
    THEN (IF acc_watt_hour(p.regs).kind = "IndexError" THEN old ELSE acc_watt_hour(p.regs))
    ELSE old

(* How Pmm300.update() ends when poll() returned p: the body of the if     *)
(* runs, and can fault, only on a non-empty snapshot.                      *)
pmm_update_outcome(p) ==
    IF Truthy(p) /\ acc_watt_hour(p.regs).kind = "IndexError"
    THEN "IndexError" ELSE "returned"

(* Pmm300.update() with poll() returning p.                                *)
Pmm300_update(p) ==
    /\ pmm_calls < MaxPmmCalls
    /\ pmm_calls' = pmm_calls + 1
    /\ pmm_polled' = p
    /\ pmm_value' = pmm_stored(p, pmm_value)
    /\ pmm_outcome' = pmm_update_outcome(p)
    /\ pmm_last' = IF Truthy(p) THEN p ELSE pmm_last
    /\ pmm_covering' = IF CoversAccumulator(p.regs) THEN p ELSE pmm_covering
    /\ pmm_prev' = pmm_value
    /\ UNCHANGED <<decVars, setupVars, aqmVars>>

PmmUpdate == \E p \in PmmPollResults : Pmm300_update(p)

----------------------------------------------------------------------------
(* Aqm300 and AqmVirtualSensor.                                            *)

(* SihasProxy.__init__ as Aqm300.__init__ calls it: the wrapper keeps what *)
(* it was constructed with, an availability flag and a register snapshot.  *)
Aqm300_init(ip, mac, device_type, config, avail, regs) ==
    [cls |-> "Aqm300", ip |-> ip, mac |-> mac, device_type |-> device_type,
     config |-> config, available |-> avail, registers |-> regs]

(* AqmVirtualSensor.__init__(aqm, AQM_GENERIC_SENSOR_DEFINE[key]); aqm is  *)
(* the identity of the wrapper object.                                     *)
AqmVirtualSensor_init(aqm, mac, avail, key) ==
    [cls |-> "AqmVirtualSensor",
     proxy |-> aqm,
     available |-> avail,
     unique_id |-> "AQM-" \o mac \o "-" \o device_class(key),
     name |-> default_name(key),
     device_class |-> device_class(key),
     value_handler |-> key,
     native_value |-> PyNone]

(* Aqm300.get_sub_entities() that builds every sensor from one table entry. *)
get_sub_entities_one_key(aqm, mac, avail) ==
    [i \in 1..7 |-> AqmVirtualSensor_init(aqm, mac, avail, "co2")]

(* Aqm300.get_sub_entities()                                               *)
get_sub_entities(aqm, mac, avail) ==
    << AqmVirtualSensor_init(aqm, mac, avail, "co2"),
       AqmVirtualSensor_init(aqm, mac, avail, "pm25"),
       AqmVirtualSensor_init(aqm, mac, avail, "pm10"),
       AqmVirtualSensor_init(aqm, mac, avail, "tvoc"),
       AqmVirtualSensor_init(aqm, mac, avail, "humidity"),
       AqmVirtualSensor_init(aqm, mac, avail, "illuminance"),
       AqmVirtualSensor_init(aqm, mac, avail, "temperature") >>

(* An air-quality snapshot of the given length: index j holds              *)
(* seed * 227 + j, so that no two indices hold the same word.              *)
AqmSnapshot(len, seed) == [i \in 1..len |-> seed * 227 + (i - 1)]

AqmSeeds == {0, 2}

AqmPollResults ==
    {PollNone, PollList(<<>>)}
        \cup {PollList(AqmSnapshot(ShortRegCount, seed)) : seed \in AqmSeeds}
        \cup {PollList(AqmSnapshot(AqmRegCount, seed)) : seed \in AqmSeeds}

(* SihasProxy.update() as Aqm300 inherits it, with poll() returning p: a   *)
(* non-empty snapshot replaces the registers and marks the device          *)
(* available, a missing one keeps the registers and marks it unavailable.  *)
proxy_registers(p, regs) == IF Truthy(p) THEN p.regs ELSE regs
proxy_availability(p) == Truthy(p)

(* The number of Aqm300.update() invocations after one more                *)
(* AqmVirtualSensor.update(): a sensor that skips the wrapper's update.    *)
proxy_update_skipped(n) == n

(* self._proxy.update(): the invocations counted so far, and this one.     *)
proxy_update_called(n) == n + 1

(* How AqmVirtualSensor.update() ends: an update that catches the fault.   *)
update_outcome_swallowed(sensor, regs) == "returned"

(* How AqmVirtualSensor.update() ends once the wrapper holds regs.         *)
update_outcome(sensor, regs) ==
    IF value_handler(sensor.value_handler, regs).kind = "IndexError"
    THEN "IndexError" ELSE "returned"

(* AqmVirtualSensor.update() that copies the availability flag before it   *)
(* decodes.                                                                *)
sensor_updated_flag_first(sensor, regs, avail) ==
    LET v == value_handler(sensor.value_handler, regs)
    IN  IF v.kind = "IndexError" THEN [sensor EXCEPT !.available = avail]
        ELSE [sensor EXCEPT !.native_value = v, !.available = avail]

(* AqmVirtualSensor.update() that never copies the availability flag.      *)
sensor_updated_no_flag(sensor, regs, avail) ==
    LET v == value_handler(sensor.value_handler, regs)
    IN  IF v.kind = "IndexError" THEN sensor
        ELSE [sensor EXCEPT !.native_value = v]

(* The sensor after the two assignments of AqmVirtualSensor.update(), the  *)
(* wrapper then holding regs and avail: a fault of the decode function     *)
(* leaves both attributes as they were.                                    *)
sensor_updated(sensor, regs, avail) ==
    LET v == value_handler(sensor.value_handler, regs)
    IN  IF v.kind = "IndexError" THEN sensor
        ELSE [sensor EXCEPT !.native_value = v, !.available = avail]

(* An update that writes its result to every sensor of the wrapper.        *)
sensors_updated_all(all, s, regs, avail) ==
    [i \in 1..Len(all) |->
        [all[i] EXCEPT !.native_value = sensor_updated(all[s], regs, avail).native_value,
                       !.available = sensor_updated(all[s], regs, avail).available]]

(* The sensors of the wrapper after sensor s ran update(): self is the     *)
(* only object the two assignments write.                                  *)
sensors_updated(all, s, regs, avail) ==
    [all EXCEPT ![s] = sensor_updated(all[s], regs, avail)]

(* AqmVirtualSensor.update() on sensor s, with poll() returning p.         *)
AqmVirtualSensor_update(s, p) ==
    /\ registers' = proxy_registers(p, registers)
    /\ proxy_available' = proxy_availability(p)
    /\ proxy_updates' = proxy_update_called(proxy_updates)
    /\ sensors' = sensors_updated(sensors, s, proxy_registers(p, registers),
                                  proxy_availability(p))
    /\ outcome' = update_outcome(sensors[s], proxy_registers(p, registers))
    /\ last' = s
    /\ calls' = calls + 1

(* The host updates any sensor at any time.                                *)
SensorUpdate ==
    \E s \in 1..Len(sensors), p \in AqmPollResults :
        /\ calls < MaxCalls
        /\ AqmVirtualSensor_update(s, p)
        /\ UNCHANGED <<pending, device, cycles>>
        /\ UNCHANGED <<pmmVars, decVars, setupVars>>

(* The host starts a polling cycle: every sensor is due once, and the      *)
(* device answers every poll of the cycle alike.                           *)
Tick ==
    /\ pending = {}
    /\ cycles < MaxCycles
    /\ cycles' = cycles + 1
    /\ pending' = 1..Len(sensors)
    /\ \E p \in AqmPollResults : device' = p
    /\ proxy_updates' = 0
    /\ UNCHANGED <<registers, proxy_available, sensors, last, outcome, calls>>
    /\ UNCHANGED <<pmmVars, decVars, setupVars>>

(* The host updates a sensor that is due in this cycle.                    *)
CycleUpdate ==
    \E s \in pending :
        /\ AqmVirtualSensor_update(s, device)
        /\ pending' = pending \ {s}
        /\ UNCHANGED <<device, cycles>>
        /\ UNCHANGED <<pmmVars, decVars, setupVars>>

----------------------------------------------------------------------------
(* setup_platform.                                                         *)

DeviceTypes == {"PMM", "AQM", "ACM", "pmm"}
Macs == {"a1", "b2"}
Ips == {"10.0.0.1", "10.0.0.2"}
Cfgs == {0, 1}

Configs == [type : DeviceTypes, ip : Ips, mac : Macs, cfg : Cfgs]

(* Pmm300(ip, mac, device_type, config)                                    *)
Pmm300_init(ip, mac, device_type, config) ==
    [cls |-> "Pmm300", ip |-> ip, mac |-> mac, device_type |-> device_type,
     config |-> config, native_value |-> PyNone]

(* The add_entities calls after setup_platform(config): a setup that       *)
(* registers the energy meter for any type it does not know.               *)
entities_added_fallback(config, calls_before, aqm, avail) ==
    IF config.type = "AQM"
    THEN Append(calls_before, get_sub_entities(aqm, config.mac, avail))
    ELSE Append(calls_before,
                <<Pmm300_init(config.ip, config.mac, config.type, config.cfg)>>)

(* The add_entities calls after setup_platform(config); aqm is the         *)
(* identity of the wrapper the "AQM" branch constructs, avail its flag.    *)
entities_added(config, calls_before, aqm, avail) ==
    IF config.type = "PMM"
    THEN Append(calls_before,
                <<Pmm300_init(config.ip, config.mac, config.type, config.cfg)>>)
    ELSE IF config.type = "AQM"
    THEN Append(calls_before, get_sub_entities(aqm, config.mac, avail))
    ELSE calls_before

(* How setup_platform(config) ends.                                        *)
setup_raises(config) ==
    IF config.type = "PMM" \/ config.type = "AQM"
    THEN "returned" ELSE "NotImplementedError"

(* setup_platform(hass, config, add_entities)                              *)
setup_platform(config, avail) ==
    /\ setups < MaxSetups
    /\ setups' = setups + 1
    /\ setup_config' = config
    /\ wrappers' =
          IF config.type = "AQM"
          THEN Append(wrappers, Aqm300_init(config.ip, config.mac, config.type,
                                            config.cfg, avail, <<>>))
          ELSE wrappers
    /\ added' = entities_added(config, added, Len(wrappers) + 1, avail)
    /\ setup_outcome' = setup_raises(config)
    /\ UNCHANGED <<pmmVars, decVars, aqmVars>>

Setup == \E config \in Configs, avail \in BOOLEAN : setup_platform(config, avail)

----------------------------------------------------------------------------
(* The decode functions applied to a register array.                       *)

DecodeArrays ==
    UNION {[1..len -> DecodeWords] : len \in AqmRegCount..(AqmRegCount + 1)}

Decode ==
    \E key \in MeasurementKeys :
        /\ dec_key' = key
        /\ dec_out' = value_handler(key, dec_regs)
        /\ UNCHANGED dec_regs
        /\ UNCHANGED <<pmmVars, setupVars, aqmVars>>

----------------------------------------------------------------------------
(* Initial states and specifications.                                      *)

NoConfig == [type |-> "", ip |-> "", mac |-> "", cfg |-> 0]

PmmIdle ==
    /\ pmm_value = PyNone
    /\ pmm_polled = PollNone
    /\ pmm_last = PollNone
    /\ pmm_covering = PollNone
    /\ pmm_prev = PyNone
    /\ pmm_outcome = "none"
    /\ pmm_calls = 0

DecodeIdle ==
    /\ dec_regs = <<>>
    /\ dec_key = "none"
    /\ dec_out = PyNone

SetupIdle ==
    /\ wrappers = <<>>
    /\ added = <<>>
    /\ setup_outcome = "none"
    /\ setup_config = NoConfig
    /\ setups = 0

(* One Aqm300 as setup_platform leaves it, before any update.              *)
AqmMac == "a1"

AqmStartWith(avail, regs) ==
    /\ proxy_available = avail
    /\ sensors = get_sub_entities(1, AqmMac, avail)
    /\ registers = regs
    /\ last = 0
    /\ outcome = "none"
    /\ proxy_updates = 0
    /\ calls = 0
    /\ pending = {}
    /\ device = PollNone
    /\ cycles = 0

AqmIdle == AqmStartWith(TRUE, <<>>)

(* The wrapper's flag and snapshot before the first poll are the base      *)
(* class's choice: either flag, and no snapshot or a zeroed one.           *)
AqmStart ==
    \E avail \in BOOLEAN, regs \in {<<>>, [i \in 1..AqmRegCount |-> 0]} :
        AqmStartWith(avail, regs)

(* The energy meter under repeated updates.                                *)
InitPmm == PmmIdle /\ DecodeIdle /\ SetupIdle /\ AqmIdle
SpecPmm == InitPmm /\ [][PmmUpdate]_vars

(* The decode table applied to well-formed register arrays.                *)
InitDecode ==
    /\ PmmIdle /\ SetupIdle /\ AqmIdle
    /\ dec_regs \in DecodeArrays
    /\ dec_key = "none"
    /\ dec_out = PyNone
SpecDecode == InitDecode /\ [][Decode]_vars

(* The host setting up configured devices.                                 *)
InitSetup == PmmIdle /\ DecodeIdle /\ SetupIdle /\ AqmIdle
SpecSetup == InitSetup /\ [][Setup]_vars

(* The host updating the virtual sensors of one Aqm300 in any order.       *)
Init == PmmIdle /\ DecodeIdle /\ SetupIdle /\ AqmStart
Next == SensorUpdate
Spec == Init /\ [][Next]_vars

(* The host updating the virtual sensors of one Aqm300 cycle by cycle.     *)
NextCycle == Tick \/ CycleUpdate
SpecCycle == Init /\ [][NextCycle]_vars

----------------------------------------------------------------------------
(* Properties.                                                             *)

(* h * 65536 + l as a two-limb int, and a two-limb int as a number (for    *)
(* values below 2^31).                                                     *)
MulAdd16(h, l) == Limbs(h + (l \div WordLimit), l % WordLimit)
IntOf(x) == x.high * WordLimit + x.low

IsWord(w) == w \in 0..(WordLimit - 1)

(* The index each measurement is documented to read.                       *)
DocumentedIndex(key) ==
    CASE key = "temperature" -> 0
      [] key = "humidity"    -> 1
      [] key = "co2"         -> 2
      [] key = "pm25"        -> 3
      [] key = "pm10"        -> 4
      [] key = "tvoc"        -> 5
      [] key = "illuminance" -> 6

(* The measurements in the order the sub-entities are documented.          *)
DocumentedOrder ==
    <<"co2", "pm25", "pm10", "tvoc", "humidity", "illuminance", "temperature">>

(* C1: after a Pmm300.update() whose poll returned a non-empty snapshot    *)
(* with 16-bit words at indices 40 and 41, the stored energy value is      *)
(* registers[40] * 65536 + registers[41], within 0..2^32-1; words 1 and 2  *)
(* give 65538.                                                             *)
C1_EnergyCombined ==
    (pmm_outcome # "none" /\ Truthy(pmm_polled) /\ Len(pmm_polled.regs) > 41) =>
        LET h == pmm_polled.regs[40 + 1]
            l == pmm_polled.regs[41 + 1]
        IN  /\ IsWord(h) /\ IsWord(l)
            /\ pmm_outcome = "returned"
            /\ pmm_value = MulAdd16(h, l)
            /\ IsWord(pmm_value.high) /\ IsWord(pmm_value.low)
            /\ (h < 2 ^ 15) => IntOf(pmm_value) = h * 65536 + l
            /\ (h = 1 /\ l = 2) => IntOf(pmm_value) = 65538

C1_Witness ==
    /\ pmm_outcome = "returned"
    /\ Truthy(pmm_polled)
    /\ Len(pmm_polled.regs) > 41
    /\ pmm_polled.regs[40 + 1] = 1
    /\ pmm_polled.regs[41 + 1] = 2
    /\ pmm_value.kind = "int"
    /\ IntOf(pmm_value) = 65538

(* C2, as stated: a Pmm300.update() whose poll returned nothing (None or   *)
(* an empty snapshot) leaves the stored energy value unchanged and returns *)
(* normally; so the stored value is always the combination of the most     *)
(* recent non-empty poll result, or the initial value if there was none.   *)
C2_Original ==
    /\ (pmm_calls > 0 /\ ~Truthy(pmm_polled)) =>
          (pmm_value = pmm_prev /\ pmm_outcome = "returned")
    /\ IF Truthy(pmm_last)
       THEN /\ Len(pmm_last.regs) > 41
            /\ pmm_value = MulAdd16(pmm_last.regs[40 + 1], pmm_last.regs[41 + 1])
       ELSE pmm_value = PyNone

(* C2, amended: a Pmm300.update() whose poll returned nothing (None or an  *)
(* empty snapshot) leaves the stored energy value unchanged and returns    *)
(* normally; the stored value is always the combination of the most recent *)
(* poll result that has words at indices 40 and 41, or the initial value   *)
(* if there was none: a non-empty snapshot that stops short of them faults *)
(* and leaves the value as it was.                                         *)
C2_StaleOnMissingPoll ==
    /\ (pmm_calls > 0 /\ ~Truthy(pmm_polled)) =>
          (pmm_value = pmm_prev /\ pmm_outcome = "returned")
    /\ (pmm_calls > 0 /\ Truthy(pmm_polled) /\ Len(pmm_polled.regs) <= 41) =>
          (pmm_value = pmm_prev /\ pmm_outcome = "IndexError")
    /\ IF Truthy(pmm_covering)
       THEN pmm_value = MulAdd16(pmm_covering.regs[40 + 1], pmm_covering.regs[41 + 1])
       ELSE pmm_value = PyNone

(* A missing poll after a too-short one after a full one: the value of the *)
(* full one is still stored.                                               *)
C2_Witness ==
    /\ pmm_calls >= 3
    /\ ~Truthy(pmm_polled)
    /\ pmm_outcome = "returned"
    /\ Truthy(pmm_last)
    /\ Len(pmm_last.regs) <= 41
    /\ pmm_last # pmm_covering
    /\ pmm_prev = Limbs(65535, 2)
    /\ pmm_value = Limbs(65535, 2)

(* C3: on a register array of length at least 7, temperature and humidity  *)
(* return registers[0] and registers[1] divided by 10 to one decimal (raw  *)
(* 455 gives 45.5), and co2, pm25, pm10, tvoc, illuminance return          *)
(* registers[2..6] unchanged.                                              *)
C3_DecodeTable ==
    (dec_key # "none") =>
        LET raw == dec_regs[DocumentedIndex(dec_key) + 1]
        IN  /\ Len(dec_regs) >= 7
            /\ IF dec_key \in {"temperature", "humidity"}
               THEN /\ dec_out.kind = "float"
                    /\ dec_out.tenth \in 0..9
                    /\ 10 * dec_out.whole + dec_out.tenth = raw
               ELSE /\ dec_out.kind = "int"
                    /\ dec_out.whole = raw
                    /\ dec_out.tenth = 0
            /\ (dec_key = "humidity" /\ dec_regs[2] = 455) =>
                  (dec_out.whole = 45 /\ dec_out.tenth = 5)

C3_Witness ==
    /\ dec_key = "humidity"
    /\ dec_regs[1] = 0
    /\ dec_regs[2] = 455
    /\ dec_out = [kind |-> "float", whole |-> 45, tenth |-> 5]

(* The sensors setup_platform registered for wrappers, by add_entities     *)
(* call and position.                                                      *)
SensorSlots ==
    {<<c, i>> \in (1..Len(added)) \X (1..7) :
        i <= Len(added[c]) /\ added[c][i].cls = "AqmVirtualSensor"}

(* C4: the sub-entities of one Aqm300 are exactly seven virtual sensors,   *)
(* one per measurement (co2, pm25, pm10, tvoc, humidity, illuminance,      *)
(* temperature), all holding the same wrapper; each unique ID is           *)
(* "AQM-{mac}-{device_class}", the same for the same (mac, device_class),  *)
(* and the seven IDs of one device are pairwise distinct.                  *)
C4_SubEntities ==
    /\ \A c \in 1..Len(added) :
          (added[c][1].cls = "AqmVirtualSensor") =>
              /\ Len(added[c]) = 7
              /\ \A i \in 1..7 :
                    /\ added[c][i].cls = "AqmVirtualSensor"
                    /\ added[c][i].name = DocumentedOrder[i]
                    /\ added[c][i].value_handler = DocumentedOrder[i]
                    /\ added[c][i].proxy = added[c][1].proxy
                    /\ added[c][i].proxy \in 1..Len(wrappers)
                    /\ added[c][i].unique_id =
                          "AQM-" \o wrappers[added[c][i].proxy].mac
                                 \o "-" \o added[c][i].device_class
              /\ \A i, j \in 1..7 :
                    (i # j) => added[c][i].unique_id # added[c][j].unique_id
    /\ \A x, y \in SensorSlots :
          LET a == added[x[1]][x[2]]
              b == added[y[1]][y[2]]
          IN  (wrappers[a.proxy].mac = wrappers[b.proxy].mac
                  /\ a.device_class = b.device_class)
                => (a.unique_id = b.unique_id)

C4_Witness ==
    /\ Len(added) = 2
    /\ Len(wrappers) = 2
    /\ wrappers[1].mac = wrappers[2].mac
    /\ wrappers[1].ip # wrappers[2].ip
    /\ Len(added[1]) = 7 /\ Len(added[2]) = 7
    /\ added[1][1].proxy # added[2][1].proxy
    /\ added[1][7].unique_id = "AQM-a1-temperature"
    /\ added[2][7].unique_id = "AQM-a1-temperature"

(* C5: setup_platform with a device type other than "PMM" or "AQM" raises  *)
(* and makes no add_entities call; with "PMM" it makes one call with one   *)
(* entity, with "AQM" one call with the seven virtual sensors.             *)
C5_SetupFailsFast ==
    [][(setups' = setups + 1) =>
          LET t == setup_config'.type
              n == Len(added')
          IN  /\ (t \notin {"PMM", "AQM"}) =>
                    (setup_outcome' = "NotImplementedError" /\ added' = added)
              /\ (t \in {"PMM", "AQM"}) =>
                    /\ setup_outcome' = "returned"
                    /\ n = Len(added) + 1
                    /\ SubSeq(added', 1, n - 1) = added
              /\ (t = "PMM") =>
                    (Len(added'[n]) = 1 /\ added'[n][1].cls = "Pmm300")
              /\ (t = "AQM") =>
                    /\ Len(added'[n]) = 7
                    /\ \A i \in 1..7 : added'[n][i].cls = "AqmVirtualSensor"
      ]_vars

C5_Witness ==
    /\ setups = 2
    /\ setup_config.type = "ACM"
    /\ setup_outcome = "NotImplementedError"
    /\ Len(added) = 1
    /\ Len(added[1]) = 7

(* C6: right after an AqmVirtualSensor.update() that completed without     *)
(* error, the sensor's value is its decode function applied to the         *)
(* wrapper's snapshot as the wrapper's update left it, and its             *)
(* availability flag is the wrapper's.                                     *)
C6_AgreesAfterUpdate ==
    (last # 0 /\ outcome = "returned") =>
        /\ sensors[last].native_value =
              value_handler(sensors[last].value_handler, registers)
        /\ sensors[last].native_value.kind \in {"int", "float"}
        /\ sensors[last].available = proxy_available

C6_Witness ==
    /\ outcome = "returned"
    /\ last = 5
    /\ sensors[last].native_value = [kind |-> "float", whole |-> 45, tenth |-> 5]
    /\ registers = AqmSnapshot(AqmRegCount, 2)
    /\ sensors[last].available
    /\ calls >= 2

(* C7: when the wrapper's register array does not cover the index a        *)
(* virtual sensor's decode function reads, AqmVirtualSensor.update()       *)
(* propagates the out-of-bounds fault, whereas Pmm300.update() on a        *)
(* missing poll result returns normally.                                   *)
C7_FaultPropagates ==
    /\ (last # 0) =>
          ((Len(registers) <= DocumentedIndex(sensors[last].value_handler))
              <=> (outcome = "IndexError"))
    /\ \A p \in PmmPollResults :
          (~Truthy(p)) => pmm_update_outcome(p) = "returned"

C7_Witness ==
    /\ last = 6
    /\ outcome = "IndexError"
    /\ registers = AqmSnapshot(ShortRegCount, 2)
    /\ proxy_available

(* C8: every AqmVirtualSensor.update() invokes the wrapper's update()      *)
(* once, so a cycle that updates all seven sensors invokes it seven times. *)
C8_OnePollPerSensor ==
    (cycles > 0) =>
        /\ proxy_updates = Cardinality((1..Len(sensors)) \ pending)
        /\ (pending = {}) => proxy_updates = 7

C8_Witness ==
    /\ cycles = 2
    /\ pending = {}
    /\ proxy_updates = 7
    /\ Len(sensors) = 7

(* C9: an AqmVirtualSensor.update() whose decode function faults has run   *)
(* the wrapper's update() and leaves the sensor's value and availability   *)
(* flag as they were, so the flag can differ from the wrapper's.           *)
C9_FaultLeavesSensor ==
    [][(calls' = calls + 1 /\ outcome' = "IndexError") =>
          /\ sensors'[last'] = sensors[last']
          /\ proxy_updates' = proxy_updates + 1
      ]_vars

C9_Witness ==
    /\ last # 0
    /\ outcome = "IndexError"
    /\ sensors[last].available # proxy_available
    /\ sensors[last].native_value.kind = "int"

(* C10: AqmVirtualSensor.update() on one sensor leaves the values and      *)
(* availability flags of the other six unchanged, and changes nothing of   *)
(* its own but those two attributes.                                       *)
C10_SiblingsUntouched ==
    [][(calls' = calls + 1) =>
          /\ \A t \in 1..7 : (t # last') => sensors'[t] = sensors[t]
          /\ sensors'[last'] =
                [sensors[last'] EXCEPT
                    !.native_value = sensors'[last'].native_value,
                    !.available = sensors'[last'].available]
      ]_vars

(* A sibling of the sensor updated last shows a value decoded from a       *)
(* snapshot other than the wrapper's current one.                          *)
C10_Witness ==
    /\ last # 0
    /\ outcome = "returned"
    /\ \E t \in 1..7 :
          /\ t # last
          /\ sensors[t].native_value.kind \in {"int", "float"}
          /\ value_handler(sensors[t].value_handler, registers).kind \in {"int", "float"}
          /\ sensors[t].native_value # value_handler(sensors[t].value_handler, registers)
          /\ sensors[t].available # proxy_available

====
